---------------------------- MODULE Spec2Model ----------------------------
(***************************************************************************)
(* Snow deformation of lihogloglo/openmw-snow: the frame scheduler          *)
(* SnowDeformationManager::update, its three render-to-texture passes       *)
(* (footprint stamp, blit/recenter, decay) on two ping-pong textures, and   *)
(* the consumer side SnowDeformationUpdater::apply.                         *)
(*                                                                         *)
(* The repository holds two revisions of snowdeformation.cpp.  The model   *)
(* follows the later one (src/unnamed/part_007, the revision the header     *)
(* snowdeformation.hpp with mTexturesInitialized belongs to); scheduler and *)
(* shaders are the same text in both.                                       *)
(*                                                                         *)
(* Units.  World lengths are the program's own numbers.  Time is counted    *)
(* in tenths of a second (0.1 s = 1).  Depths and shader factors are fixed  *)
(* point numbers with denominator FP, rounded down.  A texture coordinate   *)
(* u in [0,1] is kept as U = 2 * R * u, an integer in 0..2R, so a texel     *)
(* centre is an odd multiple of HalfTexel.                                  *)
(***************************************************************************)
EXTENDS Integers, Sequences, FiniteSets, TLC

\* ------------------------------------------------------------------ bounds
\* Texels per side of a deformation texture (the program uses 1024).
TextureResolution == 5
\* Denominator of the fixed point numbers standing for the shader's floats.
FP == 100
\* Number of update() calls of a run.
MaxFrames == 2
\* Number of passes of a run that applies one shader again and again.
MaxPasses == 3

\* ------------------------------------------------------ program constants
WorldTextureRadius == 300
BlitThreshold == 50
\* 120.0 s
DecayTime == 1200
\* 0.1 s
DecayUpdateInterval == 1
\* the literal 0.5f of update()
FootprintTimeCeiling == 5
\* 999.0 s
InitialTimeSinceLastFootprint == 9990
\* near and far plane of the RTT camera's orthographic projection
OrthoNear == -100
OrthoFar == 100
\* height of the RTT camera's eye above the player
CameraHeight == 100

\* mTerrainParams: radius, depth, interval, pattern (table order).  The
\* interval is in tenths of a world unit (2.0 is 20, 3.5 is 35).
TerrainParams ==
    << [radius |-> 60, depth |-> 100, interval |-> 20, pattern |-> "snow"],
       [radius |-> 30, depth |-> 60,  interval |-> 30, pattern |-> "ash"],
       [radius |-> 15, depth |-> 30,  interval |-> 50, pattern |-> "mud"],
       [radius |-> 20, depth |-> 40,  interval |-> 40, pattern |-> "dirt"],
       [radius |-> 25, depth |-> 50,  interval |-> 35, pattern |-> "sand"] >>

\* ------------------------------------------------------------- the inputs
\* Player positions handed to update(): <<x, y, z>>.
Positions == { <<0, 0, -50>>, <<40, 20, -50>>, <<100, 0, -50>>, <<0, 0, 100>> }
\* Frame times handed to update(), in tenths of a second.
DtValues == { 1, 2, 1200 }

\* ------------------------------------------------------------- arithmetic
R == WorldTextureRadius
HalfTexel == R \div TextureResolution
TexelIdx == 0 .. (TextureResolution - 1)
Texels == TexelIdx \X TexelIdx

Max(a, b) == IF a >= b THEN a ELSE b
Min(a, b) == IF a <= b THEN a ELSE b
Clamp(x, lo, hi) == Max(lo, Min(x, hi))

RECURSIVE SqrtBetween(_, _, _)
SqrtBetween(n, lo, hi) ==
    IF lo >= hi THEN lo
    ELSE LET mid == (lo + hi + 1) \div 2
         IN  IF mid * mid <= n THEN SqrtBetween(n, mid, hi)
             ELSE SqrtBetween(n, lo, mid - 1)

\* floor of the square root (46340 is the largest root of a 32 bit integer)
ISqrt(n) == SqrtBetween(n, 0, Min(n, 46340))

\* length() of a 2D vector with integer components, as a fixed point number.
\* Lengths of R and more are reported as R: no radius of the program reaches
\* R, and the products stay within 32 bits.
Length2(dx, dy) ==
    LET d2 == dx * dx + dy * dy
    IN  IF d2 >= R * R THEN R * FP ELSE ISqrt(d2 * FP * FP)

\* (a - b).length() > limit for integer vectors, exact
FartherThan2(a, b, limit) ==
    (a[1] - b[1]) * (a[1] - b[1]) + (a[2] - b[2]) * (a[2] - b[2]) > limit * limit

\* limit10 is in tenths of a world unit
FartherThan3(a, b, limit10) ==
    100 * ((a[1] - b[1]) * (a[1] - b[1]) + (a[2] - b[2]) * (a[2] - b[2])
           + (a[3] - b[3]) * (a[3] - b[3])) > limit10 * limit10

\* GLSL smoothstep(edge0, edge1, x) on fixed point numbers
Smoothstep(edge0, edge1, x) ==
    LET t == Clamp(((x - edge0) * FP) \div (edge1 - edge0), 0, FP)
    IN  (t * t * (3 * FP - 2 * t)) \div (FP * FP)

\* ---------------------------------------------------------------- texels
\* A texel is [depth, age]: depth a fixed point number, age a time.
ZeroTexel == [depth |-> 0, age |-> 0]
\* the RTT camera's clear colour (0, 0, 0, 1)
ClearTexel == [depth |-> 0, age |-> 0]
ZeroGrid == [t \in Texels |-> ZeroTexel]

\* U coordinate of the centre of texel column (or row) i
TexelCentre(i) == (2 * i + 1) * HalfTexel

\* texture2D on a LINEAR, CLAMP_TO_EDGE texture: the bilinear blend of the
\* four texels around (U, V), each channel rounded down.
Sample(grid, U, V) ==
    LET w  == 2 * HalfTexel
        i0 == (U - HalfTexel) \div w
        j0 == (V - HalfTexel) \div w
        fu == (U - HalfTexel) % w
        fv == (V - HalfTexel) % w
        ci(i) == Clamp(i, 0, TextureResolution - 1)
        t00 == grid[<<ci(i0), ci(j0)>>]
        t10 == grid[<<ci(i0 + 1), ci(j0)>>]
        t01 == grid[<<ci(i0), ci(j0 + 1)>>]
        t11 == grid[<<ci(i0 + 1), ci(j0 + 1)>>]
        blend(a, b, c, d) ==
            (a * (w - fu) * (w - fv) + b * fu * (w - fv)
             + c * (w - fu) * fv + d * fu * fv) \div (w * w)
    IN  [depth |-> blend(t00.depth, t10.depth, t01.depth, t11.depth),
         age   |-> blend(t00.age, t10.age, t01.age, t11.age)]

\* --------------------------------------------------------------- shaders
\* A world-to-texture mapping that divides by the diameter where the
\* shaders divide by the radius: ((w - c) / (2 R)) * 0.5 + 0.5.
WorldToUByDiameter(w, c) == (w - c) \div 2 + R

\* worldToUV of the blit shader, in U units: ((w - c) / R) * 0.5 + 0.5
WorldToU(w, c) == (w - c) + R
\* the inverse used by the stamp and blit shaders: c + (uv - 0.5) * 2 * R
UToWorld(U, c) == c + (U - R)

\* Footprint fragment shader at texture coordinate (U, V).
\*   prev: the source texture; centre: deformationCenter; foot: footprintCenter;
\*   radius: footprintRadius; depth: deformationDepth (world units);
\*   now: currentTime.  influence is a fixed point factor, so
\*   influence * depth is the fixed point depth.
FootprintInfluence(U, V, centre, foot, radius) ==
    LET wx   == UToWorld(U, centre[1])
        wy   == UToWorld(V, centre[2])
        dist == Length2(wx - foot[1], wy - foot[2])
    IN  FP - Smoothstep((radius * FP) \div 2, radius * FP, dist)

FootprintShader(prev, U, V, centre, foot, radius, depth, now) ==
    LET prevDeform == Sample(prev, U, V)
        influence  == FootprintInfluence(U, V, centre, foot, radius)
        newDepth   == Max(prevDeform.depth, influence * depth)
    IN  [depth |-> newDepth,
         age   |-> IF influence * 100 > FP THEN now ELSE prevDeform.age]

InsideUnitSquare(U, V) == U >= 0 /\ U <= 2 * R /\ V >= 0 /\ V <= 2 * R

\* Blit fragment shader at texture coordinate (U, V).
BlitShader(src, U, V, oldCenter, newCenter) ==
    LET oldU == WorldToU(UToWorld(U, newCenter[1]), oldCenter[1])
        oldV == WorldToU(UToWorld(V, newCenter[2]), oldCenter[2])
    IN  IF InsideUnitSquare(oldU, oldV) THEN Sample(src, oldU, oldV)
        ELSE ZeroTexel

\* Decay fragment shader at texture coordinate (U, V).
DecayShader(src, U, V, now, decayTime) ==
    LET deform == Sample(src, U, V)
        factor == Clamp(((now - deform.age) * FP) \div decayTime, 0, FP)
        scaled == (deform.depth * (FP - factor)) \div FP
    IN  IF deform.depth * 100 > FP
        THEN [depth |-> IF scaled * 100 < FP THEN 0 ELSE scaled,
              age   |-> deform.age]
        ELSE deform

\* ----------------------------------------------------------------- state
\* m: the SnowDeformationManager and the scene graph nodes it owns.
\*   m* fields are the members of the class; camMask, camEye and attached are
\*   the RTT camera's node mask, eye position and colour attachment; for each
\*   pass group its node mask, the texture bound to unit 0 of its state set
\*   (-1: none) and its uniforms; passLog lists the operators the latest
\*   update() call invoked.
\* tex: the two deformation textures.
\* updater: the SnowDeformationUpdater's uniforms and the texture it bound.
\* phase: "update" while the host may call update(), "render" between that
\*   call and the frame's draw; frames counts the update() calls.
\* call: the arguments of the latest update() call.
VARIABLES m, tex, updater, phase, frames, call

vars == <<m, tex, updater, phase, frames, call>>

NoTexture == -1

\* Contents a texture that was never written may hold: its storage is
\* allocated without data.
UnwrittenGrids ==
    { ZeroGrid,
      [t \in Texels |-> IF t = <<0, 0>> THEN [depth |-> 50 * FP, age |-> 0]
                        ELSE ZeroTexel] }

\* The state the constructor leaves.
InitManager ==
    [ mEnabled |-> TRUE,
      mActive |-> FALSE,
      mCurrentTextureIndex |-> 0,
      mTexturesInitialized |-> FALSE,
      mTextureCenter |-> <<0, 0>>,
      mFootprintRadius |-> 60,
      mFootprintInterval |-> 20,
      mDeformationDepth |-> 100,
      mLastFootprintPos |-> <<0, 0, 0>>,
      mTimeSinceLastFootprint |-> InitialTimeSinceLastFootprint,
      mLastBlitCenter |-> <<0, 0>>,
      mTimeSinceLastDecay |-> 0,
      mCurrentTerrainType |-> "snow",
      mCurrentTime |-> 0,
      camMask |-> FALSE,
      camEye |-> <<0, 0, CameraHeight>>,
      attached |-> 0,
      footprintMask |-> FALSE,
      blitMask |-> FALSE,
      decayMask |-> FALSE,
      footprintSrc |-> 0,
      blitSrc |-> NoTexture,
      decaySrc |-> NoTexture,
      uDeformationCenter |-> <<0, 0>>,
      uFootprintCenter |-> <<0, 0>>,
      uFootprintRadius |-> 60,
      uDeformationDepth |-> 100,
      uFootprintTime |-> 0,
      uOldCenter |-> <<0, 0>>,
      uNewCenter |-> <<0, 0>>,
      uDecayTime |-> 0,
      passLog |-> << >> ]

InitUpdater ==
    [ snowDeformationEnabled |-> FALSE,
      boundTexture |-> NoTexture,
      snowDeformationCenter |-> <<0, 0>>,
      snowDeformationRadius |-> 150,
      snowRaiseAmount |-> 100 ]

Init ==
    /\ m = InitManager
    /\ tex \in [0 .. 1 -> UnwrittenGrids]
    /\ updater = InitUpdater
    /\ phase = "update"
    /\ frames = 0
    /\ call = [dt |-> 0, playerPos |-> <<0, 0, 0>>]

\* ------------------------------------------------------------ the manager
\* shouldBeActive: the snow test is overridden ("onSnow = true").
ShouldBeActive(s, worldPos) == s.mEnabled

\* detectTerrainTexture: the placeholder returns "snow".
DetectTerrainTexture(worldPos) == "snow"

\* std::string::find(pattern) != npos for the names the model uses.
Contains(name, pattern) == name = pattern

RECURSIVE FirstMatch(_, _)
FirstMatch(name, k) ==
    IF k > Len(TerrainParams) THEN 0
    ELSE IF Contains(name, TerrainParams[k].pattern) THEN k
    ELSE FirstMatch(name, k + 1)

\* updateTerrainParameters from "Only update if terrain type changed" on,
\* for the terrain type detected.
SelectTerrainParameters(s, terrainType) ==
    LET k == FirstMatch(terrainType, 1)
    IN  IF terrainType = s.mCurrentTerrainType THEN s
        ELSE IF k = 0 THEN [s EXCEPT !.mCurrentTerrainType = terrainType]
        ELSE [s EXCEPT !.mCurrentTerrainType = terrainType,
                       !.mFootprintRadius = TerrainParams[k].radius,
                       !.mDeformationDepth = TerrainParams[k].depth,
                       !.mFootprintInterval = TerrainParams[k].interval]

UpdateTerrainParameters(s, playerPos) ==
    SelectTerrainParameters(s, DetectTerrainTexture(playerPos))

UpdateCameraPosition(s, playerPos) ==
    [s EXCEPT !.mTextureCenter = <<playerPos[1], playerPos[2]>>,
              !.camEye = <<playerPos[1], playerPos[2],
                           playerPos[3] + CameraHeight>>]

\* A stampFootprint() that leaves the deformationDepth and footprintRadius
\* uniforms as setupFootprintStamping created them.
StampFootprintKeepingUniforms(s, position) ==
    LET prevIndex == s.mCurrentTextureIndex
    IN  [s EXCEPT !.mCurrentTextureIndex = 1 - prevIndex,
                  !.footprintSrc = prevIndex,
                  !.attached = 1 - prevIndex,
                  !.uFootprintCenter = <<position[1], position[2]>>,
                  !.uDeformationCenter = s.mTextureCenter,
                  !.uFootprintTime = s.mCurrentTime,
                  !.camMask = TRUE,
                  !.footprintMask = TRUE,
                  !.passLog = Append(s.passLog, "stamp")]

StampFootprint(s, position) ==
    LET prevIndex == s.mCurrentTextureIndex
    IN  [s EXCEPT !.mCurrentTextureIndex = 1 - prevIndex,
                  !.footprintSrc = prevIndex,
                  !.attached = 1 - prevIndex,
                  !.uFootprintCenter = <<position[1], position[2]>>,
                  !.uDeformationCenter = s.mTextureCenter,
                  !.uFootprintTime = s.mCurrentTime,
                  !.uDeformationDepth = s.mDeformationDepth,
                  !.uFootprintRadius = s.mFootprintRadius,
                  !.camMask = TRUE,
                  !.footprintMask = TRUE,
                  !.passLog = Append(s.passLog, "stamp")]

BlitTexture(s, oldCenter, newCenter) ==
    LET sourceIndex == s.mCurrentTextureIndex
    IN  [s EXCEPT !.mCurrentTextureIndex = 1 - sourceIndex,
                  !.blitSrc = sourceIndex,
                  !.attached = 1 - sourceIndex,
                  !.uOldCenter = oldCenter,
                  !.uNewCenter = newCenter,
                  !.blitMask = TRUE,
                  !.camMask = TRUE,
                  !.passLog = Append(s.passLog, "blit")]

\* A decay that renders into the texture it reads: no swap.
ApplyDecayInPlace(s) ==
    [s EXCEPT !.decaySrc = s.mCurrentTextureIndex,
              !.attached = s.mCurrentTextureIndex,
              !.uDecayTime = s.mCurrentTime,
              !.decayMask = TRUE,
              !.camMask = TRUE,
              !.passLog = Append(s.passLog, "decay")]

ApplyDecay(s) ==
    LET sourceIndex == s.mCurrentTextureIndex
    IN  [s EXCEPT !.mCurrentTextureIndex = 1 - sourceIndex,
                  !.decaySrc = sourceIndex,
                  !.attached = 1 - sourceIndex,
                  !.uDecayTime = s.mCurrentTime,
                  !.decayMask = TRUE,
                  !.camMask = TRUE,
                  !.passLog = Append(s.passLog, "decay")]

\* The three tests of update(), in the order it makes them.
BlitNeeded(s, playerPos) ==
    FartherThan2(<<playerPos[1], playerPos[2]>>, s.mLastBlitCenter, BlitThreshold)

\* A footprint test whose ceiling is 1 s.
StampNeededAfterOneSecond(s, playerPos, timeSince) ==
    \/ FartherThan3(playerPos, s.mLastFootprintPos, s.mFootprintInterval)
    \/ timeSince > 2 * FootprintTimeCeiling

\* A footprint test that forgets the 0.5 s ceiling.
StampNeededByDistanceOnly(s, playerPos, timeSince) ==
    FartherThan3(playerPos, s.mLastFootprintPos, s.mFootprintInterval)

\* timeSince is mTimeSinceLastFootprint after "+= dt"
StampNeeded(s, playerPos, timeSince) ==
    \/ FartherThan3(playerPos, s.mLastFootprintPos, s.mFootprintInterval)
    \/ timeSince > FootprintTimeCeiling

\* A decay test without the interval: due in every frame that reaches it.
DecayNeededAlways(timeSince) == TRUE

\* timeSince is mTimeSinceLastDecay after "+= dt"
DecayNeeded(timeSince) == timeSince > DecayUpdateInterval

\* A scheduler whose blit branch lacks its "return": the frame goes on to the
\* footprint test after the blit.
ScheduleWithoutReturn(s0, dt, playerPos) ==
    LET s1 == UpdateTerrainParameters(
                  [s0 EXCEPT !.blitMask = FALSE, !.footprintMask = FALSE,
                             !.decayMask = FALSE],
                  playerPos)
        currentCenter == <<playerPos[1], playerPos[2]>>
        s2 == UpdateCameraPosition(
                  IF BlitNeeded(s1, playerPos)
                  THEN [BlitTexture(s1, s1.mTextureCenter, currentCenter)
                           EXCEPT !.mLastBlitCenter = currentCenter]
                  ELSE s1,
                  playerPos)
        sinceFootprint == s2.mTimeSinceLastFootprint + dt
        s3 == [s2 EXCEPT !.mTimeSinceLastFootprint = sinceFootprint]
    IN  IF StampNeeded(s3, playerPos, sinceFootprint)
        THEN [StampFootprint(s3, playerPos)
                 EXCEPT !.mLastFootprintPos = playerPos,
                        !.mTimeSinceLastFootprint = 0]
        ELSE s3

\* update() from "Disable all RTT groups" on, for an enabled, active manager.
Schedule(s0, dt, playerPos) ==
    LET s1 == UpdateTerrainParameters(
                  [s0 EXCEPT !.blitMask = FALSE, !.footprintMask = FALSE,
                             !.decayMask = FALSE],
                  playerPos)
        currentCenter == <<playerPos[1], playerPos[2]>>
    IN  IF BlitNeeded(s1, playerPos)
        THEN UpdateCameraPosition(
                 [BlitTexture(s1, s1.mTextureCenter, currentCenter)
                     EXCEPT !.mLastBlitCenter = currentCenter],
                 playerPos)
        ELSE
          LET s2 == UpdateCameraPosition(s1, playerPos)
              sinceFootprint == s2.mTimeSinceLastFootprint + dt
              s3 == [s2 EXCEPT !.mTimeSinceLastFootprint = sinceFootprint]
          IN  IF StampNeeded(s3, playerPos, sinceFootprint)
              THEN [StampFootprint(s3, playerPos)
                       EXCEPT !.mLastFootprintPos = playerPos,
                              !.mTimeSinceLastFootprint = 0]
              ELSE
                LET sinceDecay == s3.mTimeSinceLastDecay + dt
                    s4 == [s3 EXCEPT !.mTimeSinceLastDecay = sinceDecay]
                IN  IF DecayNeeded(sinceDecay)
                    THEN [ApplyDecay(s4) EXCEPT !.mTimeSinceLastDecay = 0]
                    ELSE s4

\* An update() that advances the decay timer at its start, in every frame.
UpdateAdvancingDecayTimer(s, dt, playerPos) ==
    IF ~s.mEnabled THEN [s EXCEPT !.passLog = << >>]
    ELSE Schedule([s EXCEPT !.passLog = << >>,
                            !.mCurrentTime = s.mCurrentTime + dt,
                            !.mActive = TRUE,
                            !.mTexturesInitialized = TRUE,
                            !.mTimeSinceLastDecay = s.mTimeSinceLastDecay + dt],
                  dt, playerPos)

\* An update() that lacks the "if (!mEnabled) return".
UpdateWithoutEnabledTest(s, dt, playerPos) ==
    Schedule([s EXCEPT !.passLog = << >>,
                       !.mCurrentTime = s.mCurrentTime + dt,
                       !.mTexturesInitialized = TRUE],
             dt, playerPos)

\* SnowDeformationManager::update(dt, playerPos)
Update(s, dt, playerPos) ==
    IF ~s.mEnabled THEN [s EXCEPT !.passLog = << >>]
    ELSE
      LET s1 == [s EXCEPT !.passLog = << >>,
                          !.mCurrentTime = s.mCurrentTime + dt]
          s2 == [s1 EXCEPT !.mActive = ShouldBeActive(s1, playerPos)]
      IN  IF ~s2.mActive THEN s2
          ELSE Schedule([s2 EXCEPT !.mTexturesInitialized = TRUE], dt, playerPos)

\* SnowDeformationManager::setEnabled(enabled)
SetEnabled(s, enabled) ==
    IF s.mEnabled = enabled THEN s
    ELSE IF enabled THEN [s EXCEPT !.mEnabled = TRUE]
    ELSE [s EXCEPT !.mEnabled = FALSE, !.mActive = FALSE, !.camMask = FALSE]

\* A getter that hands out the texture the latest pass read, not the one it
\* rendered into.
GetOtherDeformationTexture(s) ==
    IF ~s.mActive \/ ~s.mEnabled THEN NoTexture ELSE 1 - s.mCurrentTextureIndex

\* SnowDeformationManager::getDeformationTexture(): a texture index, or
\* NoTexture for nullptr.
GetDeformationTexture(s) ==
    IF ~s.mActive \/ ~s.mEnabled THEN NoTexture ELSE s.mCurrentTextureIndex

\* SnowDeformationManager::getDeformationTextureParams()
GetDeformationTextureParams(s) ==
    [center |-> s.mTextureCenter, radius |-> WorldTextureRadius]

\* An apply() that binds the current texture and raises the flag without
\* asking whether the manager is enabled and active.
UpdaterApplyUnconditional(u, s) ==
    [ snowDeformationEnabled |-> TRUE,
      boundTexture |-> s.mCurrentTextureIndex,
      snowDeformationCenter |-> s.mTextureCenter,
      snowDeformationRadius |-> WorldTextureRadius,
      snowRaiseAmount |-> s.mDeformationDepth ]

\* SnowDeformationUpdater::apply() on a state set that holds the updater's
\* uniforms (setDefaults added them).
UpdaterApply(u, s) ==
    LET deformationTexture == GetDeformationTexture(s)
        params == GetDeformationTextureParams(s)
    IN  IF deformationTexture # NoTexture /\ s.mEnabled
        THEN [ snowDeformationEnabled |-> TRUE,
               boundTexture |-> deformationTexture,
               snowDeformationCenter |-> params.center,
               snowDeformationRadius |-> params.radius,
               snowRaiseAmount |-> s.mDeformationDepth ]
        ELSE [u EXCEPT !.snowDeformationEnabled = FALSE]

\* ------------------------------------------------------------- rendering
\* The RTT camera is an ABSOLUTE_RF camera with the orthographic projection
\* (-R, R, -R, R, OrthoNear, OrthoFar) and the view lookAt(eye, eye - z, up =
\* -Y): its view x axis is world -X and its view y axis is world -Y.  The
\* three quads have the same vertices, (+-R, +-R, 0) in world coordinates,
\* with texture coordinate (0,0) at (-R,-R) and (1,1) at (R,R).

\* view space coordinate of the centre of pixel column (or row) i
ViewCoord(i) == TexelCentre(i) - R

\* world coordinate seen at pixel column (row) i by a camera whose eye is at
\* world coordinate eye on that axis
WorldUnderPixel(eye, i) == eye - ViewCoord(i)

\* the quad's plane z = 0 lies between the near and the far plane
QuadInDepthRange(s) == s.camEye[3] >= OrthoNear /\ s.camEye[3] <= OrthoFar

\* pixel (i, j) of the render target is covered by a quad
PixelCovered(s, i, j) ==
    LET x == WorldUnderPixel(s.camEye[1], i)
        y == WorldUnderPixel(s.camEye[2], j)
    IN  /\ QuadInDepthRange(s)
        /\ x >= -R /\ x <= R /\ y >= -R /\ y <= R

\* the interpolated texture coordinate (varying texUV) at pixel column (row) i
FragCoord(eye, i) == WorldUnderPixel(eye, i) + R

\* What the enabled pass group `pass` writes to pixel (i, j), reading the
\* textures t.
Fragment(s, t, pass, i, j) ==
    LET U == FragCoord(s.camEye[1], i)
        V == FragCoord(s.camEye[2], j)
    IN  CASE pass = "stamp" ->
               FootprintShader(t[s.footprintSrc], U, V, s.uDeformationCenter,
                               s.uFootprintCenter, s.uFootprintRadius,
                               s.uDeformationDepth, s.uFootprintTime)
          [] pass = "blit" ->
               BlitShader(t[s.blitSrc], U, V, s.uOldCenter, s.uNewCenter)
          [] pass = "decay" ->
               DecayShader(t[s.decaySrc], U, V, s.uDecayTime, DecayTime)

\* Drawing one pass group into the attached texture.
DrawGroup(s, t, pass) ==
    [t EXCEPT ![s.attached] =
        [x \in Texels |-> IF PixelCovered(s, x[1], x[2])
                          THEN Fragment(s, t, pass, x[1], x[2])
                          ELSE t[s.attached][x]]]

\* The camera's clear of its colour attachment (clear mask
\* GL_COLOR_BUFFER_BIT).
ClearTarget(s, t) == [t EXCEPT ![s.attached] = [x \in Texels |-> ClearTexel]]

\* One traversal of the RTT camera: nothing when its node mask is 0, else
\* the clear and then the enabled groups in child order.
RenderFrame(s, t) ==
    IF ~s.camMask THEN t
    ELSE
      LET t0 == ClearTarget(s, t)
          t1 == IF s.footprintMask THEN DrawGroup(s, t0, "stamp") ELSE t0
          t2 == IF s.blitMask THEN DrawGroup(s, t1, "blit") ELSE t1
          t3 == IF s.decayMask THEN DrawGroup(s, t2, "decay") ELSE t2
      IN  t3

\* --------------------------------------------------------------- actions
\* The host calls update(dt, playerPos) once per frame.
UpdateFrame ==
    /\ phase = "update"
    /\ frames < MaxFrames
    /\ \E dt \in DtValues, playerPos \in Positions :
          /\ m' = Update(m, dt, playerPos)
          /\ call' = [dt |-> dt, playerPos |-> playerPos]
    /\ phase' = "render"
    /\ frames' = frames + 1
    /\ UNCHANGED <<tex, updater>>

\* The frame is drawn: the pre-render RTT camera first.
Render ==
    /\ phase = "render"
    /\ tex' = RenderFrame(m, tex)
    /\ phase' = "update"
    /\ UNCHANGED <<m, updater, frames, call>>

\* The host switches the system on or off.
CallSetEnabled ==
    /\ \E enabled \in BOOLEAN : m' = SetEnabled(m, enabled)
    /\ UNCHANGED <<tex, updater, phase, frames, call>>

\* The terrain state set's update callback runs.
CallApply ==
    /\ updater' = UpdaterApply(updater, m)
    /\ UNCHANGED <<m, tex, phase, frames, call>>

Next == UpdateFrame \/ Render \/ CallSetEnabled \/ CallApply

Spec == Init /\ [][Next]_vars

\* ------------------------------------------------------------ properties
\* The pass groups whose node mask is set.
EnabledGroups ==
    { g \in {"stamp", "blit", "decay"} :
        \/ g = "stamp" /\ m.footprintMask
        \/ g = "blit" /\ m.blitMask
        \/ g = "decay" /\ m.decayMask }

\* The texture bound as input of pass group g.
SourceOf(s, g) ==
    CASE g = "stamp" -> s.footprintSrc
      [] g = "blit" -> s.blitSrc
      [] g = "decay" -> s.decaySrc

\* A step that is a call of update().
IsUpdateStep == frames' = frames + 1

\* C1 (scheduler exclusivity): a call of update() invokes at most one of
\* blitTexture, stampFootprint and applyDecay; at most one of the three pass
\* groups has its node mask set, and after a call that invoked an operator
\* the only group enabled is that operator's, whatever update() and
\* setEnabled() calls came before.
C1_SchedulerExclusivity ==
    /\ Len(m.passLog) <= 1
    /\ Cardinality(EnabledGroups) <= 1
    /\ Len(m.passLog) = 1 => EnabledGroups = { m.passLog[1] }

\* A frame about to be drawn whose update() ran the decay, the group of the
\* frame before (a stamp or a blit) switched off.
C1_Witness ==
    /\ phase = "render"
    /\ frames = 2
    /\ m.passLog = << "decay" >>
    /\ m.decayMask /\ ~m.footprintMask /\ ~m.blitMask

\* C2 (ping-pong): the current texture index is 0 or 1; a call of update()
\* that invokes an operator binds the texture that was current before the
\* call as the operator's input, attaches the other one as render target and
\* flips the index once; a call that invokes none leaves the index; the
\* input and the render target of an issued pass differ.
C2_PingPong ==
    /\ [](/\ m.mCurrentTextureIndex \in {0, 1}
          /\ m.attached \in {0, 1}
          /\ Len(m.passLog) = 1 => SourceOf(m, m.passLog[1]) # m.attached)
    /\ [][IsUpdateStep =>
            /\ m'.passLog = << >> =>
                  m'.mCurrentTextureIndex = m.mCurrentTextureIndex
            /\ Len(m'.passLog) = 1 =>
                  /\ SourceOf(m', m'.passLog[1]) = m.mCurrentTextureIndex
                  /\ m'.attached = 1 - m.mCurrentTextureIndex
                  /\ m'.mCurrentTextureIndex = 1 - m.mCurrentTextureIndex]_vars

\* The second operator of a run: a blit that reads texture 1 and renders
\* into texture 0.
C2_Witness ==
    /\ m.passLog = << "blit" >>
    /\ m.blitSrc = 1
    /\ m.attached = 0
    /\ m.mCurrentTextureIndex = 0

\* C3 (strict priority): in a call of update() on an enabled manager, with
\* p the player position and dt the frame time of the call, the blit runs
\* exactly when p's XY is farther than the blit threshold from
\* mLastBlitCenter, and mLastBlitCenter is then p's XY; otherwise the stamp
\* runs exactly when p is farther than the footprint interval from
\* mLastFootprintPos or mTimeSinceLastFootprint + dt exceeds 0.5 s, and
\* then mLastFootprintPos is p and the timer is 0; otherwise the decay runs
\* exactly when mTimeSinceLastDecay + dt exceeds the decay update interval,
\* and then that timer is 0.
C3_StrictPriority ==
    [][(IsUpdateStep /\ m.mEnabled) =>
         LET p == call'.playerPos
             dt == call'.dt
             xy == <<p[1], p[2]>>
             recenter ==
                 (xy[1] - m.mLastBlitCenter[1]) * (xy[1] - m.mLastBlitCenter[1])
                 + (xy[2] - m.mLastBlitCenter[2]) * (xy[2] - m.mLastBlitCenter[2])
                 > BlitThreshold * BlitThreshold
             moved ==
                 100 * ((p[1] - m.mLastFootprintPos[1]) * (p[1] - m.mLastFootprintPos[1])
                        + (p[2] - m.mLastFootprintPos[2]) * (p[2] - m.mLastFootprintPos[2])
                        + (p[3] - m.mLastFootprintPos[3]) * (p[3] - m.mLastFootprintPos[3]))
                 > m'.mFootprintInterval * m'.mFootprintInterval
             stamp == moved \/ m.mTimeSinceLastFootprint + dt > FootprintTimeCeiling
             decay == m.mTimeSinceLastDecay + dt > DecayUpdateInterval
         IN  /\ (m'.passLog = << "blit" >>) <=> recenter
             /\ recenter => m'.mLastBlitCenter = xy
             /\ (m'.passLog = << "stamp" >>) <=> (~recenter /\ stamp)
             /\ (~recenter /\ stamp) =>
                   /\ m'.mLastFootprintPos = p
                   /\ m'.mTimeSinceLastFootprint = 0
             /\ (m'.passLog = << "decay" >>) <=> (~recenter /\ ~stamp /\ decay)
             /\ (~recenter /\ ~stamp /\ decay) => m'.mTimeSinceLastDecay = 0
             /\ (m'.passLog = << >>) <=> (~recenter /\ ~stamp /\ ~decay)]_vars

\* A blit frame in which the footprint test would have passed as well: the
\* player is farther from the last footprint than the footprint interval.
C3_Witness ==
    /\ phase = "render"
    /\ m.passLog = << "blit" >>
    /\ m.mLastBlitCenter = <<call.playerPos[1], call.playerPos[2]>>
    /\ FartherThan3(call.playerPos, m.mLastFootprintPos, m.mFootprintInterval)

\* C4 (anchor and grid change atomically): the centre reported by
\* getDeformationTextureParams() changes only in a call of update() that
\* runs the blit; a call that runs the stamp, the decay or no operator
\* leaves it, and a call that runs the blit changes it together with the
\* texture index.
C4_AnchorChangesOnlyOnRecenter ==
    [][IsUpdateStep =>
         /\ m'.passLog # << "blit" >> =>
               GetDeformationTextureParams(m').center
                   = GetDeformationTextureParams(m).center
         /\ m'.passLog = << "blit" >> =>
               /\ GetDeformationTextureParams(m').center
                     = <<call'.playerPos[1], call'.playerPos[2]>>
               /\ m'.mCurrentTextureIndex # m.mCurrentTextureIndex]_vars

\* C5 as claimed (reader and writer on different grids): while the pass of
\* the current frame waits to be drawn, the texture getDeformationTexture()
\* returns, and the texture apply() bound, is not the texture attached as
\* the pass's render target.
C5_ReaderAvoidsRenderTarget ==
    (phase = "render" /\ m.passLog # << >>) =>
        /\ GetDeformationTexture(m) # m.attached
        /\ updater.snowDeformationEnabled => updater.boundTexture # m.attached

\* C5 amended (the reader gets the render target, never the pass's input):
\* the texture getDeformationTexture() returns, when it returns one, is the
\* texture attached as render target of the RTT camera, and is not the
\* texture the latest issued pass samples; a call of apply() that switches
\* the terrain's deformation on binds that render target.
C5_ReaderGetsRenderTarget ==
    /\ [](GetDeformationTexture(m) # NoTexture =>
            /\ GetDeformationTexture(m) = m.attached
            /\ Len(m.passLog) = 1 =>
                  GetDeformationTexture(m) # SourceOf(m, m.passLog[1]))
    /\ [][(updater' # updater /\ updater'.snowDeformationEnabled) =>
            /\ updater'.boundTexture = m.attached
            /\ updater'.snowDeformationCenter = m.mTextureCenter]_vars

\* apply() ran after the first update() stamped: the terrain samples texture
\* 1, the render target of the stamp still to be drawn.
C5_Witness ==
    /\ phase = "render"
    /\ frames = 1
    /\ m.passLog = << "stamp" >>
    /\ m.attached = 1
    /\ updater.snowDeformationEnabled
    /\ updater.boundTexture = 1

\* A step that draws the frame whose update() issued the pass `op`.
IsRenderOf(op) ==
    /\ phase = "render" /\ phase' = "update"
    /\ m.camMask
    /\ m.passLog = << op >>

\* The anchor the consumer is told.
Anchor == GetDeformationTextureParams(m).center

\* World coordinate of the centre of texel column (row) i of a grid whose
\* anchor coordinate is c.
TexelWorld(i, c) == UToWorld(TexelCentre(i), c)

\* C6 (recenter overlap preservation): after the blit of a frame is drawn,
\* every texel of the destination whose world position under the new anchor
\* maps to an old texture coordinate inside the unit square holds the depth
\* and age the source texture has at that old coordinate.
C6_RecenterOverlapPreserved ==
    [][IsRenderOf("blit") =>
         \A t \in Texels :
            LET oldU == WorldToU(TexelWorld(t[1], Anchor[1]), m.uOldCenter[1])
                oldV == WorldToU(TexelWorld(t[2], Anchor[2]), m.uOldCenter[2])
            IN  InsideUnitSquare(oldU, oldV) =>
                  tex'[m.attached][t] = Sample(tex[m.blitSrc], oldU, oldV)]_vars

\* C7 (recenter eviction): after the blit of a frame is drawn, every texel
\* of the destination whose world position under the new anchor maps
\* outside the old coverage has depth 0.
C7_RecenterEviction ==
    [][IsRenderOf("blit") =>
         \A t \in Texels :
            LET oldU == WorldToU(TexelWorld(t[1], Anchor[1]), m.uOldCenter[1])
                oldV == WorldToU(TexelWorld(t[2], Anchor[2]), m.uOldCenter[2])
            IN  ~InsideUnitSquare(oldU, oldV) => tex'[m.attached][t].depth = 0]_vars

\* Fixed point influence of the footprint of the latest stamp at texel t.
InfluenceAt(t) ==
    FootprintInfluence(TexelCentre(t[1]), TexelCentre(t[2]), Anchor,
                       m.uFootprintCenter, m.mFootprintRadius)

\* C8 (monotonic stamp): after the stamp of a frame is drawn, no texel is
\* shallower than before, and each texel's depth is the larger of its
\* depth before and influence times the deformation depth.
C8_StampMonotonic ==
    [][IsRenderOf("stamp") =>
         \A t \in Texels :
            /\ tex'[m.attached][t].depth >= tex[m.footprintSrc][t].depth
            /\ tex'[m.attached][t].depth
                  = Max(tex[m.footprintSrc][t].depth,
                        InfluenceAt(t) * m.mDeformationDepth)]_vars

\* Four times the squared distance of texel t's world position from the
\* footprint of the latest stamp.
FourDistSq(t) ==
    LET dx == TexelWorld(t[1], Anchor[1]) - m.uFootprintCenter[1]
        dy == TexelWorld(t[2], Anchor[2]) - m.uFootprintCenter[2]
    IN  4 * (dx * dx + dy * dy)

\* C9 (stamp falloff): after the stamp of a frame is drawn, with p the
\* footprint position, r the footprint radius and d the deformation depth,
\* a texel within r/2 of p has depth max(old depth, d) and a texel at r or
\* more from p has its old depth; if the source was all zero, sampling the
\* new grid at p yields d and a texel farther than r from p holds 0.
C9_StampFalloff ==
    [][IsRenderOf("stamp") =>
         LET r == m.mFootprintRadius
             d == m.mDeformationDepth * FP
             old == tex[m.footprintSrc]
             new == tex'[m.attached]
             pU == WorldToU(m.uFootprintCenter[1], Anchor[1])
             pV == WorldToU(m.uFootprintCenter[2], Anchor[2])
         IN  /\ \A t \in Texels :
                  /\ FourDistSq(t) <= r * r =>
                        new[t].depth = Max(old[t].depth, d)
                  /\ FourDistSq(t) >= 4 * r * r =>
                        new[t].depth = old[t].depth
             /\ old = ZeroGrid =>
                  /\ Sample(new, pU, pV).depth = d
                  /\ \A t \in Texels :
                        FourDistSq(t) > 4 * r * r => new[t].depth = 0]_vars

\* C10 (decay convergence): while the system is enabled, a texel stamped at
\* time t0 > 0 has depth 0 once the clock has reached t0 + mDecayTime, and
\* drawing a decay pass makes no texel deeper.
C10_DecayConvergence ==
    /\ [](( /\ phase = "update"
            /\ m.mEnabled
            /\ m.mActive
            /\ m.camMask ) =>
            \A t \in Texels :
               LET texel == tex[m.mCurrentTextureIndex][t]
               IN  (texel.age >= 1 /\ m.mCurrentTime >= texel.age + DecayTime)
                     => texel.depth = 0)
    /\ [][IsRenderOf("decay") =>
            \A t \in Texels :
               tex'[m.attached][t].depth <= tex[m.decaySrc][t].depth]_vars

\* ---------------------------------------------- the shaders on their own
\* What pass group `pass` computes for the fragment whose interpolated
\* texture coordinate is (U, V), reading the textures t.
ShadeTexel(s, t, pass, U, V) ==
    CASE pass = "stamp" ->
           FootprintShader(t[s.footprintSrc], U, V, s.uDeformationCenter,
                           s.uFootprintCenter, s.uFootprintRadius,
                           s.uDeformationDepth, s.uFootprintTime)
      [] pass = "blit" ->
           BlitShader(t[s.blitSrc], U, V, s.uOldCenter, s.uNewCenter)
      [] pass = "decay" ->
           DecayShader(t[s.decaySrc], U, V, s.uDecayTime, DecayTime)

\* A pass over the whole render target in which every texel is shaded at
\* its own texture coordinate: the fragment shader as a function from the
\* source grid to the destination grid.
AlignedPass(s, t, pass) ==
    [t EXCEPT ![s.attached] =
        [x \in Texels |->
            ShadeTexel(s, t, pass, TexelCentre(x[1]), TexelCentre(x[2]))]]

\* A grid in which every texel was stamped to `depth` at time t0.
StampedGrid(depth, t0) == [t \in Texels |-> [depth |-> depth, age |-> t0]]

\* Stamp times and the times between two decay passes, in tenths of a second.
StampTimes == { 0, 60, 600 }
DecayDts == { 300, 600 }

\* The decay shader iterated: the grid was stamped to the active profile's
\* depth at t0, and applyDecay() passes follow at the chosen intervals.
InitDecayLaw ==
    /\ \E k \in 1 .. Len(TerrainParams), t0 \in StampTimes :
          /\ m = [InitManager EXCEPT
                     !.mActive = TRUE,
                     !.mTexturesInitialized = TRUE,
                     !.mCurrentTime = t0,
                     !.mCurrentTerrainType = TerrainParams[k].pattern,
                     !.mFootprintRadius = TerrainParams[k].radius,
                     !.mDeformationDepth = TerrainParams[k].depth,
                     !.mFootprintInterval = TerrainParams[k].interval]
          /\ tex = [i \in 0 .. 1 |->
                       StampedGrid(TerrainParams[k].depth * FP, t0)]
    /\ updater = InitUpdater
    /\ phase = "update"
    /\ frames = 0
    /\ call = [dt |-> 0, playerPos |-> <<0, 0, 0>>]

DecayPass ==
    /\ frames < MaxPasses
    /\ \E dt \in DecayDts :
          LET s == ApplyDecay([m EXCEPT !.mCurrentTime = m.mCurrentTime + dt,
                                        !.decayMask = FALSE,
                                        !.passLog = << >>])
          IN  /\ m' = s
              /\ tex' = AlignedPass(s, tex, "decay")
              /\ call' = [call EXCEPT !.dt = dt]
    /\ frames' = frames + 1
    /\ UNCHANGED <<updater, phase>>

SpecDecayLaw == InitDecayLaw /\ [][DecayPass]_vars

\* C11 (linear decay law): after any number of decay passes over a grid
\* stamped to depth d0 at time t0, each texel's depth at the time t of the
\* latest pass is d0 * (1 - clamp((t - t0) / mDecayTime, 0, 1)), snapped to
\* 0 below 0.01, however many passes ran and whatever their spacing.
C11_DecayLinear ==
    \A t \in Texels :
       LET texel == tex[m.mCurrentTextureIndex][t]
           d0 == m.mDeformationDepth * FP
           factor == Clamp(((m.mCurrentTime - texel.age) * FP) \div DecayTime,
                           0, FP)
           linear == (d0 * (FP - factor)) \div FP
       IN  texel.depth = IF linear * 100 < FP THEN 0 ELSE linear

\* Footprint positions (world XY) and frame times for stamps applied one
\* after another on a grid anchored at the origin.
StampPositions == { <<0, 0>>, <<120, 0>>, <<-240, 240>> }
StampDts == { 1, 5 }
\* Depths (world units) the grid may hold before the first stamp.
EarlierDepths == { 0, 50, 100 }

\* The footprint shader with deformationDepth = 0: the manager's depth is 0
\* and the grid holds an earlier stamp.
InitZeroStamp ==
    /\ \E d \in EarlierDepths, t0 \in StampTimes :
          /\ m = [InitManager EXCEPT
                     !.mActive = TRUE,
                     !.mTexturesInitialized = TRUE,
                     !.mCurrentTime = t0,
                     !.mDeformationDepth = 0]
          /\ tex = [i \in 0 .. 1 |-> StampedGrid(d * FP, t0)]
    /\ updater = InitUpdater
    /\ phase = "update"
    /\ frames = 0
    /\ call = [dt |-> 0, playerPos |-> <<0, 0, 0>>]

\* stampFootprint(position) and its pass, every texel shaded at its own
\* texture coordinate.
StampPass ==
    /\ frames < MaxPasses
    /\ \E dt \in StampDts, position \in StampPositions :
          LET s == StampFootprint(
                       [m EXCEPT !.mCurrentTime = m.mCurrentTime + dt,
                                 !.footprintMask = FALSE,
                                 !.passLog = << >>],
                       <<position[1], position[2], 0>>)
          IN  /\ m' = s
              /\ tex' = AlignedPass(s, tex, "stamp")
              /\ call' = [dt |-> dt,
                          playerPos |-> <<position[1], position[2], 0>>]
    /\ frames' = frames + 1
    /\ UNCHANGED <<updater, phase>>

SpecZeroStamp == InitZeroStamp /\ [][StampPass]_vars

SchedulerState(s) ==
    << s.mCurrentTextureIndex, s.mTextureCenter, s.mCurrentTime,
       s.mLastBlitCenter, s.mLastFootprintPos, s.mTimeSinceLastFootprint,
       s.mTimeSinceLastDecay, s.attached, s.camEye >>

\* C13 (disabled means inert): while the manager is disabled the RTT camera
\* is masked off and the manager is not active; a call of update() invokes
\* no operator; and no step taken while it stays disabled changes the
\* texture index, either texture, the anchor, the clock, mLastBlitCenter,
\* mLastFootprintPos or a timer.
C13_DisabledIsInert ==
    /\ [](~m.mEnabled => (~m.camMask /\ ~m.mActive))
    /\ [][(~m.mEnabled /\ ~m'.mEnabled) =>
            /\ tex' = tex
            /\ SchedulerState(m') = SchedulerState(m)
            /\ IsUpdateStep => m'.passLog = << >>]_vars

\* The second update() of a run was called on a disabled manager: the
\* first one stamped (its timer is still 0), the second one did nothing.
C13_Witness ==
    /\ ~m.mEnabled
    /\ frames = 2
    /\ phase = "render"
    /\ m.passLog = << >>
    /\ m.mCurrentTime > 0
    /\ m.mTimeSinceLastFootprint = 0
    /\ m.mTimeSinceLastDecay = 0

\* C14 (disabled reader contract): a disabled manager hands out no texture;
\* an apply() that changes the consumer's uniforms leaves
\* snowDeformationEnabled true exactly when the manager it saw was enabled
\* and active, and then the texture it bound is the manager's current one;
\* the flag is never true unless an apply() has bound a texture.
C14_DisabledReader ==
    /\ [](~m.mEnabled => GetDeformationTexture(m) = NoTexture)
    /\ [](updater.snowDeformationEnabled => updater.boundTexture # NoTexture)
    /\ [][updater' # updater =>
            /\ updater'.snowDeformationEnabled = (m.mEnabled /\ m.mActive)
            /\ updater'.snowDeformationEnabled =>
                   /\ GetDeformationTexture(m) # NoTexture
                   /\ updater'.boundTexture = GetDeformationTexture(m)]_vars

\* An apply() on an enabled, active manager bound a texture and raised the
\* flag; a later apply() on the disabled manager has lowered it again.
C14_Witness ==
    /\ ~m.mEnabled
    /\ updater.boundTexture # NoTexture
    /\ ~updater.snowDeformationEnabled

\* C15 (zero initialisation): when the first pass after creation is about
\* to be drawn, the texture bound as its input holds depth 0 and age 0 in
\* every texel.
C15_FirstSourceIsZero ==
    (frames = 1 /\ phase = "render" /\ Len(m.passLog) = 1) =>
        tex[SourceOf(m, m.passLog[1])] = ZeroGrid

\* Terrain names a texture detection could report: the five patterns of the
\* table and a name none of them matches.
TerrainNames == { TerrainParams[k].pattern : k \in 1 .. Len(TerrainParams) } \cup { "rock" }

ProfilePositions == { <<0, 0>>, <<120, 0>> }

InitProfileStamp ==
    /\ m = [InitManager EXCEPT !.mActive = TRUE, !.mTexturesInitialized = TRUE]
    /\ tex = [i \in 0 .. 1 |-> ZeroGrid]
    /\ updater = InitUpdater
    /\ phase = "update"
    /\ frames = 0
    /\ call = [dt |-> 0, playerPos |-> <<0, 0, 0>>]

\* updateTerrainParameters() for a detected terrain name, then
\* stampFootprint() and its pass, every texel shaded at its own UV.
ProfileStampPass ==
    /\ frames < MaxPasses
    /\ \E terrainType \in TerrainNames, position \in ProfilePositions :
          LET playerPos == <<position[1], position[2], 0>>
              s0 == [m EXCEPT !.mCurrentTime = m.mCurrentTime + 1,
                              !.footprintMask = FALSE,
                              !.passLog = << >>]
              s == StampFootprint(SelectTerrainParameters(s0, terrainType),
                                  playerPos)
          IN  /\ m' = s
              /\ tex' = AlignedPass(s, tex, "stamp")
              /\ call' = [dt |-> 1, playerPos |-> playerPos]
    /\ frames' = frames + 1
    /\ UNCHANGED <<updater, phase>>

SpecProfileStamp == InitProfileStamp /\ [][ProfileStampPass]_vars

Abs(a) == IF a < 0 THEN -a ELSE a

\* Terrain vertices the vertex shader is run on: chunkWorldOffset and the
\* chunk-local gl_Vertex.
ChunkVertices ==
    { [chunkWorldOffset |-> <<0, 0, 0>>, vertex |-> <<0, 0, 10>>],
      [chunkWorldOffset |-> <<0, 0, 0>>, vertex |-> <<40, 20, 0>>],
      [chunkWorldOffset |-> <<120, 0, 0>>, vertex |-> <<-20, 0, 5>>],
      [chunkWorldOffset |-> <<-600, 300, 0>>, vertex |-> <<10, 10, 0>>] }

\* terrain.vert, main(): the z coordinate (times FP) handed to modelToClip
\* for a vertex, under the uniforms u.  The code the preprocessor leaves is
\* the chunk offset pattern of "TEST 4".
TerrainVert(vertex, chunkWorldOffset, u) ==
    IF u.snowDeformationEnabled
    THEN LET pattern == (Abs(chunkWorldOffset[1]) + Abs(chunkWorldOffset[2])) % 1000
         IN  vertex[3] * FP + (pattern * FP) \div 2
    ELSE vertex[3] * FP

\* C18 (raise-then-subtract): with snowDeformationEnabled true the vertex
\* shader moves a terrain vertex to its base height plus snowRaiseAmount
\* minus the depth sampled from the bound texture at the vertex's world
\* position; with the flag false the vertex keeps its base height.
C18_RaiseThenSubtract ==
    \A cv \in ChunkVertices :
        LET worldX == cv.vertex[1] + cv.chunkWorldOffset[1]
            worldY == cv.vertex[2] + cv.chunkWorldOffset[2]
            U == WorldToU(worldX, updater.snowDeformationCenter[1])
            V == WorldToU(worldY, updater.snowDeformationCenter[2])
            sampledDepth == IF InsideUnitSquare(U, V)
                            THEN Sample(tex[updater.boundTexture], U, V).depth
                            ELSE 0
        IN  TerrainVert(cv.vertex, cv.chunkWorldOffset, updater) =
               IF updater.snowDeformationEnabled
               THEN cv.vertex[3] * FP + updater.snowRaiseAmount * FP - sampledDepth
               ELSE cv.vertex[3] * FP

\* ------------------------------------------------------ coverage lookups
\* sampleDeformation(worldPos) of the deformation vertex shader, for a
\* texture of width worldTextureSize = 2 R centred on textureCenter, with
\* no test of the texture coordinate's range.
SampleDeformationClamped(grid, worldPos, textureCenter) ==
    Sample(grid, WorldToU(worldPos[1], textureCenter[1]),
                 WorldToU(worldPos[2], textureCenter[2])).depth

\* sampleDeformation(worldPos) of the deformation vertex shader, for a
\* texture of width worldTextureSize = 2 R centred on textureCenter.
SampleDeformation(grid, worldPos, textureCenter) ==
    LET U == WorldToU(worldPos[1], textureCenter[1])
        V == WorldToU(worldPos[2], textureCenter[2])
    IN  IF U < 0 \/ U > 2 * R \/ V < 0 \/ V > 2 * R THEN 0
        ELSE Sample(grid, U, V).depth

\* Centres a blit moves the texture to, and world positions looked up.
BlitCentres == { <<0, 0>>, <<240, 0>>, <<-120, 120>>, <<700, 0>> }
LookupPositions == { <<0, 0>>, <<301, 0>>, <<-400, 50>>, <<240, -299>> }

InitCoverage ==
    /\ \E d \in EarlierDepths \ {0} :
          tex = [i \in 0 .. 1 |-> StampedGrid(d * FP, 0)]
    /\ m = [InitManager EXCEPT !.mActive = TRUE, !.mTexturesInitialized = TRUE]
    /\ updater = InitUpdater
    /\ phase = "update"
    /\ frames = 0
    /\ call = [dt |-> 0, playerPos |-> <<0, 0, 0>>]

\* blitTexture(mTextureCenter, newCenter) and its pass, every texel shaded
\* at its own UV, the texture centre moved as updateCameraPosition moves
\* it; then a world position is picked for the vertex shader to look up.
CoverageLookup ==
    /\ frames < MaxPasses
    /\ \E newCenter \in BlitCentres, worldPos \in LookupPositions :
          LET s == [BlitTexture([m EXCEPT !.blitMask = FALSE,
                                          !.passLog = << >>],
                                m.mTextureCenter, newCenter)
                      EXCEPT !.mTextureCenter = newCenter,
                             !.mLastBlitCenter = newCenter]
          IN  /\ m' = s
              /\ tex' = AlignedPass(s, tex, "blit")
              /\ call' = [dt |-> 0, playerPos |-> <<worldPos[1], worldPos[2], 0>>]
    /\ frames' = frames + 1
    /\ UNCHANGED <<updater, phase>>

SpecCoverage == InitCoverage /\ [][CoverageLookup]_vars

\* The looked-up world position has a texture coordinate outside the unit
\* square of the texture centred on the manager's texture centre.
LookupOutside ==
    ~InsideUnitSquare(WorldToU(call.playerPos[1], m.mTextureCenter[1]),
                      WorldToU(call.playerPos[2], m.mTextureCenter[2]))

CentresInUse ==
    { m.mTextureCenter, m.uDeformationCenter, m.uOldCenter, m.uNewCenter,
      updater.snowDeformationCenter }

\* Texture coordinates (times 2 R): the texel centres, the two edges and
\* the middle.
UCoords == { TexelCentre(i) : i \in TexelIdx } \cup { 0, R, 2 * R }

\* C20 (mappings are inverse): for every texture centre in use, on each
\* axis, mapping a texture coordinate to the world and back gives the same
\* coordinate, and so does mapping a world coordinate to the texture and
\* back; the centre maps to texture coordinate 0.5 and the points at
\* distance R from it to 0 and 1; and the old coordinate the blit shader
\* computes for a texture coordinate is that coordinate moved by the
\* distance between the new and the old centre.
C20_MappingsInverse ==
    /\ \A c \in CentresInUse, a \in 1 .. 2, U \in UCoords :
          /\ WorldToU(UToWorld(U, c[a]), c[a]) = U
          /\ UToWorld(WorldToU(c[a] + U - R, c[a]), c[a]) = c[a] + U - R
          /\ WorldToU(c[a], c[a]) = R
          /\ WorldToU(c[a] + R, c[a]) = 2 * R
          /\ WorldToU(c[a] - R, c[a]) = 0
    /\ \A a \in 1 .. 2, U \in UCoords :
          WorldToU(UToWorld(U, m.uNewCenter[a]), m.uOldCenter[a]) =
             U + (m.uNewCenter[a] - m.uOldCenter[a])

\* A blit about to be drawn whose old and new centre differ: its shader
\* maps texture coordinates to the world under the new centre and back
\* under the old one.
C20_Witness ==
    /\ phase = "render"
    /\ m.passLog = << "blit" >>
    /\ m.uOldCenter # m.uNewCenter
    /\ m.uNewCenter # <<0, 0>>

\* -------------------------------------------------------------- trails
\* World positions (x, y) at which the consumer's view of the field is
\* probed: where the player of the model has stood.
ProbePoints == { <<pos[1], pos[2]>> : pos \in Positions }

\* Depth the consumer samples at world position p from texture grid under
\* the centre c.
DepthAt(grid, p, c) ==
    Sample(grid, WorldToU(p[1], c[1]), WorldToU(p[2], c[2])).depth

\* World position p lies inside the square covered under the centre c.
Covered(p, c) == InsideUnitSquare(WorldToU(p[1], c[1]), WorldToU(p[2], c[2]))

\* C21 (trail persistence): when the blit of a frame is drawn, the depth
\* the consumer samples at a world position that is covered before and
\* after, using the centre reported after the frame, is not less than the
\* depth it sampled there before, using the centre reported before.
C21_TrailPersistsAcrossRecenter ==
    [][IsRenderOf("blit") =>
         \A p \in ProbePoints :
            (Covered(p, m.uOldCenter) /\ Covered(p, m.mTextureCenter)) =>
               DepthAt(tex'[m.mCurrentTextureIndex], p, m.mTextureCenter)
                  >= DepthAt(tex[m.blitSrc], p, m.uOldCenter)]_vars

\* C22 (idle frame): drawing a frame whose update() ran on an enabled,
\* active manager and invoked no operator leaves every texel of both
\* textures as it was.
C22_IdleFrameLeavesTextures ==
    [][(/\ phase = "render" /\ phase' = "update"
        /\ m.mEnabled /\ m.mActive
        /\ m.passLog = << >>) => tex' = tex]_vars

\* C23 (full, texel-aligned passes): when the pass of a frame is drawn,
\* every texel of the attached texture receives the value the pass's
\* fragment shader computes at the texture coordinate of that texel,
\* wherever the camera stands.
C23_PassIsTexelAligned ==
    [][\A op \in {"stamp", "blit", "decay"} :
          IsRenderOf(op) =>
             tex'[m.attached] = AlignedPass(m, tex, op)[m.attached]]_vars

\* C24 (age marks the last increase): a footprint pass changes a texel's
\* age only if it makes that texel strictly deeper, and a texel it makes
\* deeper gets the stamp time as its age.
C24_AgeMarksLastIncrease ==
    [][frames' = frames + 1 =>
         \A t \in Texels :
            LET old == tex[m'.footprintSrc][t]
                new == tex'[m'.attached][t]
            IN  /\ new.age # old.age => new.depth > old.depth
                /\ new.depth > old.depth => new.age = m'.uFootprintTime]_vars

\* C25 (decay pass): when the decay of a frame is drawn, no texel of the
\* attached texture is deeper than the same texel of the pass's input, its
\* age is that texel's age, a texel of depth 0 is handed on as it is, and
\* a texel whose age lies at least the decay time back gets depth 0.
C25_DecayPassContract ==
    [][IsRenderOf("decay") =>
         \A t \in Texels :
            LET old == tex[m.decaySrc][t]
                new == tex'[m.attached][t]
            IN  /\ new.depth <= old.depth
                /\ new.age = old.age
                /\ old.depth = 0 => new = old
                /\ (old.depth > 0 /\ m.uDecayTime - old.age >= DecayTime) =>
                       new.depth = 0]_vars

\* ------------------------------------------------- the scheduler alone
\* Frame times of a scheduling run: 0.1 s and 0.6 s.
SchedDts == { 1, 6 }

\* Number of update() calls of a bounded scheduling run.
MaxSchedFrames == 5

\* The clock of an unbounded scheduling run is kept modulo ClockWrap; the
\* tests of update() do not read mCurrentTime.
ClockWrap == 2

InitSchedule ==
    /\ m = InitManager
    /\ tex = [i \in 0 .. 1 |-> ZeroGrid]
    /\ updater = InitUpdater
    /\ phase = "update"
    /\ frames = 0
    /\ call = [dt |-> 0, playerPos |-> <<0, 0, 0>>]

\* update(dt, playerPos) on the enabled manager, frame after frame.
ScheduleFrame ==
    /\ frames < MaxSchedFrames
    /\ \E dt \in SchedDts, playerPos \in Positions :
          /\ m' = Update(m, dt, playerPos)
          /\ call' = [dt |-> dt, playerPos |-> playerPos]
    /\ frames' = frames + 1
    /\ UNCHANGED <<tex, updater, phase>>

SpecSchedule == InitSchedule /\ [][ScheduleFrame]_vars

\* update(dt, playerPos) without an end: the frame count is not kept.
ScheduleFrameForever ==
    /\ \E dt \in SchedDts, playerPos \in Positions :
          /\ m' = [Update(m, dt, playerPos) EXCEPT !.mCurrentTime = @ % ClockWrap]
          /\ call' = [dt |-> dt, playerPos |-> playerPos]
    /\ UNCHANGED <<tex, updater, phase, frames>>

\* The host calls update() in every frame, for ever.
SpecScheduleForever ==
    InitSchedule /\ [][ScheduleFrameForever]_vars /\ WF_vars(ScheduleFrameForever)

\* C26 (decay is not starved): in a run of update() calls on the enabled
\* manager, each with a positive dt, the decay runs again and again.
C26_DecayInfinitelyOften == []<>(m.passLog = << "decay" >>)

\* C27 (stamp ceiling): in a frame without blit in which the player has
\* moved no farther than the footprint interval from the last footprint,
\* the stamp runs exactly if the time since the last stamp, this frame's
\* dt included, exceeds 0.5 s; so after a frame without blit that time is
\* at most 0.5 s, and a stamp run in such a frame comes at most 0.5 s plus
\* the frame's dt after the one before.
C27_StampCeiling ==
    [][(frames' = frames + 1 /\ m'.passLog # << "blit" >>) =>
         LET since == m.mTimeSinceLastFootprint + call'.dt
             still == ~FartherThan3(call'.playerPos, m.mLastFootprintPos,
                                    m.mFootprintInterval)
         IN  /\ still => (m'.passLog = << "stamp" >> <=> since > FootprintTimeCeiling)
             /\ m'.mTimeSinceLastFootprint <= FootprintTimeCeiling
             /\ (m'.passLog = << "stamp" >> /\ m.mTimeSinceLastFootprint <= FootprintTimeCeiling)
                   => /\ since <= FootprintTimeCeiling + call'.dt
                      /\ m'.mTimeSinceLastFootprint = 0]_vars

\* No blit so far; the first frame stamped, in the second, 0.1 s long, the
\* player stood still and nothing ran, and the third, 0.6 s long, stamps.
C27_Witness ==
    /\ frames = 3
    /\ m.passLog = << "stamp" >>
    /\ call.dt = 6
    /\ m.mLastFootprintPos = call.playerPos
    /\ m.mTimeSinceLastDecay = 1
    /\ m.blitSrc = NoTexture

\* C28 (decay rate limit): a frame that runs the decay runs neither blit
\* nor stamp, and when a decay has run before, the clock has advanced by
\* more than mDecayUpdateInterval since that decay.
C28_DecayRateLimit ==
    [][(frames' = frames + 1 /\ "decay" \in { m'.passLog[k] : k \in 1 .. Len(m'.passLog) }) =>
         /\ m'.passLog = << "decay" >>
         /\ ~m'.blitMask /\ ~m'.footprintMask
         /\ m.decaySrc # NoTexture =>
               m'.uDecayTime - m.uDecayTime > DecayUpdateInterval]_vars

\* The second decay of a run of five frames of 0.1 s: a stamp in the first
\* frame, no blit, and an even number of decays since.
C28_Witness ==
    /\ frames = 5
    /\ m.passLog = << "decay" >>
    /\ m.mCurrentTime = 5
    /\ m.uFootprintTime = 1
    /\ m.blitSrc = NoTexture
    /\ m.mCurrentTextureIndex = 1

\* C29 (stamp is not starved): in a run of update() calls on the enabled
\* manager, each with a positive dt, the stamp runs again and again.
C29_StampInfinitelyOften == []<>(m.passLog = << "stamp" >>)

\* ------------------------------------------------ the public interface
\* Most operators a run lets happen between two update() calls.
MaxLoggedPasses == 2

\* The host calls the public stampFootprint(position) itself, with the
\* player position it last handed to update().
CallStampFootprint ==
    /\ Len(m.passLog) < MaxLoggedPasses
    /\ m' = StampFootprint(m, call.playerPos)
    /\ UNCHANGED <<tex, updater, phase, frames, call>>

PublicNext == ScheduleFrame \/ CallSetEnabled \/ CallStampFootprint

\* Any sequence of update(), setEnabled() and stampFootprint() calls.
SpecPublic == InitSchedule /\ [][PublicNext]_vars

\* C30 (read/write separation under the public interface): at most one
\* pass group has its node mask set, and the texture bound as input of a
\* group whose node mask is set is not the texture attached to the RTT
\* camera.
C30_PublicReadWriteSeparation ==
    /\ Cardinality(EnabledGroups) <= 1
    /\ \A g \in EnabledGroups : SourceOf(m, g) # m.attached

\* C31 (what a blit frame and a stamp frame leave alone): an update() that
\* runs the blit leaves mLastFootprintPos, mTimeSinceLastFootprint and
\* mTimeSinceLastDecay as they were; one that runs the stamp leaves
\* mTimeSinceLastDecay and mLastBlitCenter as they were; both advance the
\* clock by dt.
C31_FrameLeavesTimers ==
    [][frames' = frames + 1 =>
         /\ m'.passLog = << "blit" >> =>
               /\ m'.mLastFootprintPos = m.mLastFootprintPos
               /\ m'.mTimeSinceLastFootprint = m.mTimeSinceLastFootprint
               /\ m'.mTimeSinceLastDecay = m.mTimeSinceLastDecay
               /\ m'.mCurrentTime = m.mCurrentTime + call'.dt
         /\ m'.passLog = << "stamp" >> =>
               /\ m'.mTimeSinceLastDecay = m.mTimeSinceLastDecay
               /\ m'.mLastBlitCenter = m.mLastBlitCenter
               /\ m'.mCurrentTime = m.mCurrentTime + call'.dt]_vars

\* A blit frame of 0.6 s that follows a stamp and a frame of 0.1 s in which
\* nothing ran: both timers still stand at 0.1 s.
C31_Witness ==
    /\ frames = 3
    /\ m.passLog = << "blit" >>
    /\ call.dt = 6
    /\ m.mCurrentTime = 8
    /\ m.mTimeSinceLastFootprint = 1
    /\ m.mTimeSinceLastDecay = 1

\* C32 (first frame stamps): the first update() after construction runs
\* the stamp, at the player's position.
C32_FirstFrameStamps ==
    [][(frames = 0 /\ frames' = 1) =>
         /\ m'.passLog = << "stamp" >>
         /\ m'.uFootprintCenter = << call'.playerPos[1], call'.playerPos[2] >>]_vars

NullArray == [type |-> "null", data |-> << >>, owner |-> "none"]

\* The null osg::ref_ptr<osg::Geometry>.
NullGeometry ==
    [null |-> TRUE, owner |-> "none", vertexArray |-> NullArray,
     normalArray |-> NullArray, texCoordArray |-> NullArray,
     colorArray |-> NullArray, primitiveSets |-> << >>]

\* new osg::DrawArrays(GL_TRIANGLES, 0, count)
DrawArraysOf(count, owner) ==
    [mode |-> "GL_TRIANGLES", class |-> "DrawArrays",
     indices |-> [k \in 1 .. count |-> k], owner |-> owner]

\* (a + b) * 0.5f on vectors; the inputs keep their coordinates multiples
\* of 16, so that four halvings are exact as they are in float.
Midpoint(a, b) == [k \in DOMAIN a |-> (a[k] + b[k]) \div 2]

\* osg::Vec3f::normalize(), the unit length being FP; the zero vector is
\* left as it is.
Normalize(v) ==
    LET len == ISqrt(v[1] * v[1] + v[2] * v[2] + v[3] * v[3])
    IN  IF len > 0 THEN [k \in DOMAIN v |-> (v[k] * FP) \div len] ELSE v

InterpolateNormal(n0, n1) == Normalize([k \in DOMAIN n0 |-> n0[k] + n1[k]])

\* per channel (c0 + c1) / 2 in integers
InterpolateColor(c0, c1) == [k \in DOMAIN c0 |-> (c0[k] + c1[k]) \div 2]

WhiteColor == << 255, 255, 255, 255 >>

\* The destination arrays dstV, dstN, dstUV, dstC after the push_backs of
\* one subdivideTriangleRecursive call on empty arrays; dstC stays empty
\* when there is no destination color array.
RECURSIVE SubdivideTriangleRecursive(_, _, _, _, _, _)
SubdivideTriangleRecursive(v, n, uv, c, hasDstC, level) ==
    IF level = 0
    THEN [V |-> v, N |-> n, UV |-> uv, C |-> IF hasDstC THEN c ELSE << >>]
    ELSE LET v01 == Midpoint(v[1], v[2])
             v12 == Midpoint(v[2], v[3])
             v20 == Midpoint(v[3], v[1])
             n01 == InterpolateNormal(n[1], n[2])
             n12 == InterpolateNormal(n[2], n[3])
             n20 == InterpolateNormal(n[3], n[1])
             uv01 == Midpoint(uv[1], uv[2])
             uv12 == Midpoint(uv[2], uv[3])
             uv20 == Midpoint(uv[3], uv[1])
             c01 == InterpolateColor(c[1], c[2])
             c12 == InterpolateColor(c[2], c[3])
             c20 == InterpolateColor(c[3], c[1])
             a == SubdivideTriangleRecursive(<<v[1], v01, v20>>, <<n[1], n01, n20>>,
                      <<uv[1], uv01, uv20>>, <<c[1], c01, c20>>, hasDstC, level - 1)
             b == SubdivideTriangleRecursive(<<v01, v[2], v12>>, <<n01, n[2], n12>>,
                      <<uv01, uv[2], uv12>>, <<c01, c[2], c12>>, hasDstC, level - 1)
             d == SubdivideTriangleRecursive(<<v20, v12, v[3]>>, <<n20, n12, n[3]>>,
                      <<uv20, uv12, uv[3]>>, <<c20, c12, c[3]>>, hasDstC, level - 1)
             e == SubdivideTriangleRecursive(<<v01, v12, v20>>, <<n01, n12, n20>>,
                      <<uv01, uv12, uv20>>, <<c01, c12, c20>>, hasDstC, level - 1)
         IN  [V |-> a.V \o b.V \o d.V \o e.V,
              N |-> a.N \o b.N \o d.N \o e.N,
              UV |-> a.UV \o b.UV \o d.UV \o e.UV,
              C |-> a.C \o b.C \o d.C \o e.C]

EmptyArrays == [V |-> << >>, N |-> << >>, UV |-> << >>, C |-> << >>]

AppendArrays(dst, more) ==
    [V |-> dst.V \o more.V, N |-> dst.N \o more.N,
     UV |-> dst.UV \o more.UV, C |-> dst.C \o more.C]

\* The loop over the index triples of one primitive set, from triple t on:
\* subdivideTriangles for a DrawElements, the inner loop of subdivide for a
\* DrawArrays. The index counts of the inputs are multiples of three.
RECURSIVE SubdivideTriangles(_, _, _, _, _, _, _, _)
SubdivideTriangles(indices, t, srcV, srcN, srcUV, srcC, dst, levels) ==
    IF 3 * t >= Len(indices) THEN dst
    ELSE LET i0 == indices[3 * t + 1]
             i1 == indices[3 * t + 2]
             i2 == indices[3 * t + 3]
             hasC == srcC.type # "null"
             c == IF hasC THEN << srcC.data[i0], srcC.data[i1], srcC.data[i2] >>
                  ELSE << WhiteColor, WhiteColor, WhiteColor >>
             more == SubdivideTriangleRecursive(
                         << srcV.data[i0], srcV.data[i1], srcV.data[i2] >>,
                         << srcN.data[i0], srcN.data[i1], srcN.data[i2] >>,
                         << srcUV.data[i0], srcUV.data[i1], srcUV.data[i2] >>,
                         c, hasC, levels)
         IN  SubdivideTriangles(indices, t + 1, srcV, srcN, srcUV, srcC,
                                AppendArrays(dst, more), levels)

\* dynamic_cast<const T*>(array): the array when its dynamic type is T,
\* the null pointer otherwise.
DynamicCast(array, type) == IF array.type = type THEN array ELSE NullArray

\* The loop of subdivide over the primitive sets, from set i on.
RECURSIVE ProcessPrimitiveSets(_, _, _, _, _, _, _, _)
ProcessPrimitiveSets(prims, i, srcV, srcN, srcUV, srcC, dst, levels) ==
    IF i > Len(prims) THEN dst
    ELSE LET ps == prims[i]
             next == IF /\ ps.mode = "GL_TRIANGLES"
                        /\ ps.class \in {"DrawElements", "DrawArrays"}
                     THEN SubdivideTriangles(ps.indices, 0, srcV, srcN, srcUV,
                                             srcC, dst, levels)
                     ELSE dst
         IN  ProcessPrimitiveSets(prims, i + 1, srcV, srcN, srcUV, srcC, next, levels)

\* osg::clone(source, osg::CopyOp::DEEP_COPY_ALL): new objects throughout,
\* with the contents of the old ones.
DeepCopy(g) ==
    LET copyArray(a) == IF a.type = "null" THEN a ELSE [a EXCEPT !.owner = "copy"]
    IN  [g EXCEPT !.owner = "copy",
                  !.vertexArray = copyArray(@),
                  !.normalArray = copyArray(@),
                  !.texCoordArray = copyArray(@),
                  !.colorArray = copyArray(@),
                  !.primitiveSets = [k \in DOMAIN g.primitiveSets |->
                                       [g.primitiveSets[k] EXCEPT !.owner = "copy"]]]

\* TerrainSubdivider::subdivide(source, levels)
Subdivide(source, levels) ==
    IF source.null THEN NullGeometry
    ELSE IF levels = 0 THEN DeepCopy(source)
    ELSE IF levels < 0 \/ levels > 4 THEN NullGeometry
    ELSE LET srcVerts == DynamicCast(source.vertexArray, "Vec3Array")
             srcNormals == DynamicCast(source.normalArray, "Vec3Array")
             srcUVs == DynamicCast(source.texCoordArray, "Vec2Array")
             srcColors == DynamicCast(source.colorArray, "Vec4ubArray")
         IN  IF \/ srcVerts.type = "null"
                \/ srcNormals.type = "null"
                \/ srcUVs.type = "null"
             THEN NullGeometry
             ELSE LET dst == ProcessPrimitiveSets(source.primitiveSets, 1, srcVerts,
                                 srcNormals, srcUVs, srcColors, EmptyArrays, levels)
                  IN  [null |-> FALSE, owner |-> "result",
                       vertexArray |-> [type |-> "Vec3Array", data |-> dst.V,
                                        owner |-> "result"],
                       normalArray |-> [type |-> "Vec3Array", data |-> dst.N,
                                        owner |-> "result"],
                       texCoordArray |-> [type |-> "Vec2Array", data |-> dst.UV,
                                          owner |-> "result"],
                       colorArray |-> IF srcColors.type # "null"
                                      THEN [type |-> "Vec4ubArray", data |-> dst.C,
                                            owner |-> "result"]
                                      ELSE NullArray,
                       primitiveSets |-> << DrawArraysOf(Len(dst.V), "result") >>]

\* The end of ChunkManager::createChunk: the geometry the chunk is drawn
\* from, for the subdivision level the tracker gave.
CreateChunk(geometry, subdivisionLevel) ==
    IF subdivisionLevel > 0
    THEN LET subdivided == Subdivide(geometry, subdivisionLevel)
         IN  IF ~subdivided.null
             THEN [geometry EXCEPT !.owner = "drawable",
                                   !.vertexArray = subdivided.vertexArray,
                                   !.normalArray = subdivided.normalArray,
                                   !.colorArray = subdivided.colorArray,
                                   !.texCoordArray = subdivided.texCoordArray,
                                   !.primitiveSets = subdivided.primitiveSets]
             ELSE geometry
    ELSE geometry

\* Source geometries handed to subdivide: four vertices of a terrain quad
\* with their normals (unit length FP), texture coordinates and colors.
QuadVertices == << <<0, 0, 0>>, <<16, 0, 0>>, <<0, 16, 16>>, <<16, 16, 0>> >>
QuadNormals == << <<0, 0, 100>>, <<0, 0, 100>>, <<60, 0, 80>>, <<0, 60, 80>> >>
QuadUVs == << <<0, 0>>, <<16, 0>>, <<0, 16>>, <<16, 16>> >>
QuadColors ==
    << <<255, 255, 255, 255>>, <<0, 0, 0, 255>>, <<100, 50, 200, 255>>,
       <<10, 20, 30, 40>> >>

SourceArray(type, data) == [type |-> type, data |-> data, owner |-> "source"]

SourcePrimitiveSet(mode, class, indices) ==
    [mode |-> mode, class |-> class, indices |-> indices, owner |-> "source"]

SourceGeometry(normalType, uvType, colorType, prims) ==
    [null |-> FALSE, owner |-> "source",
     vertexArray |-> SourceArray("Vec3Array", QuadVertices),
     normalArray |-> IF normalType = "null" THEN NullArray
                     ELSE SourceArray(normalType, QuadNormals),
     texCoordArray |-> IF uvType = "null" THEN NullArray
                       ELSE SourceArray(uvType, QuadUVs),
     colorArray |-> IF colorType = "null" THEN NullArray
                    ELSE SourceArray(colorType, QuadColors),
     primitiveSets |-> prims]

IndexedQuad == SourcePrimitiveSet("GL_TRIANGLES", "DrawElements", <<1, 2, 3, 3, 2, 4>>)
IndexedTriangle == SourcePrimitiveSet("GL_TRIANGLES", "DrawElements", <<1, 2, 3>>)
ArrayTriangle == SourcePrimitiveSet("GL_TRIANGLES", "DrawArrays", <<2, 3, 4>>)
LengthsTriangle == SourcePrimitiveSet("GL_TRIANGLES", "DrawArrayLengths", <<1, 2, 3>>)
IndexedStrip == SourcePrimitiveSet("GL_TRIANGLE_STRIP", "DrawElements", <<1, 2, 3, 4>>)

SourceGeometries ==
    { NullGeometry,
      SourceGeometry("Vec3Array", "Vec2Array", "Vec4ubArray", << IndexedQuad >>),
      SourceGeometry("Vec3Array", "Vec2Array", "null", << IndexedTriangle >>),
      SourceGeometry("Vec3Array", "Vec2Array", "Vec4ubArray", << ArrayTriangle >>),
      SourceGeometry("Vec3Array", "Vec2Array", "null",
                     << IndexedTriangle, ArrayTriangle >>),
      SourceGeometry("null", "Vec2Array", "Vec4ubArray", << IndexedQuad >>),
      SourceGeometry("Vec3Array", "null", "null", << IndexedQuad >>),
      [SourceGeometry("Vec3Array", "Vec2Array", "null", << IndexedQuad >>)
          EXCEPT !.vertexArray = NullArray],
      SourceGeometry("Vec3Array", "Vec2Array", "Vec4Array", << IndexedTriangle >>),
      SourceGeometry("Vec3Array", "Vec2Array", "null", << LengthsTriangle >>),
      SourceGeometry("Vec3Array", "Vec2Array", "Vec4ubArray", << IndexedStrip >>),
      SourceGeometry("Vec3Array", "Vec2Array", "null",
                     << IndexedTriangle, IndexedStrip >>) }

SubdivisionLevels == -1 .. 5

InitSubdivide ==
    /\ \E source \in SourceGeometries, levels \in SubdivisionLevels :
          m = [source |-> source, levels |-> levels, result |-> NullGeometry,
               chunk |-> NullGeometry]
    /\ tex = [i \in 0 .. 1 |-> ZeroGrid]
    /\ updater = InitUpdater
    /\ phase = "update"
    /\ frames = 0
    /\ call = [dt |-> 0, playerPos |-> <<0, 0, 0>>]

\* One call of subdivide, and the end of createChunk for the same geometry
\* and level.
SubdivideCall ==
    /\ frames = 0
    /\ m' = [m EXCEPT !.result = Subdivide(m.source, m.levels),
                      !.chunk = CreateChunk(m.source, m.levels)]
    /\ frames' = 1
    /\ UNCHANGED <<tex, updater, phase, call>>

SpecSubdivide == InitSubdivide /\ [][SubdivideCall]_vars

RECURSIVE Pow4(_)
Pow4(k) == IF k = 0 THEN 1 ELSE 4 * Pow4(k - 1)

RECURSIVE CountTriangles(_, _)
CountTriangles(prims, i) ==
    IF i > Len(prims) THEN 0
    ELSE Len(prims[i].indices) \div 3 + CountTriangles(prims, i + 1)

\* The source of the call is a geometry with vertex, normal and texture
\* coordinate arrays of the types subdivide reads.
HasRequiredArrays(g) ==
    /\ ~g.null
    /\ g.vertexArray.type = "Vec3Array"
    /\ g.normalArray.type = "Vec3Array"
    /\ g.texCoordArray.type = "Vec2Array"

AllTriangleLists(g) ==
    \A k \in DOMAIN g.primitiveSets : g.primitiveSets[k].mode = "GL_TRIANGLES"

Elements(seq) == { seq[k] : k \in DOMAIN seq }

\* C34 (subdivision count): subdivide(source, levels) with levels in
\* 1 .. 4, on a source with vertex, normal and UV arrays whose primitive
\* sets are all GL_TRIANGLES, returns a geometry with 4^levels triangles
\* per source triangle, as one DrawArrays triangle list over vertex, normal
\* and UV arrays of equal length, with a color array of that length if and
\* only if the source has one; and every corner of every source triangle
\* is among the output vertices.
C34_FourPowerTriangles ==
    (/\ frames = 1
     /\ m.levels \in 1 .. 4
     /\ HasRequiredArrays(m.source)
     /\ AllTriangleLists(m.source))
    => LET n == Len(m.result.vertexArray.data)
       IN  /\ ~m.result.null
           /\ n = 3 * Pow4(m.levels) * CountTriangles(m.source.primitiveSets, 1)
           /\ Len(m.result.normalArray.data) = n
           /\ Len(m.result.texCoordArray.data) = n
           /\ (m.result.colorArray.type # "null") <=> (m.source.colorArray.type # "null")
           /\ m.result.colorArray.type # "null" => Len(m.result.colorArray.data) = n
           /\ m.result.primitiveSets = << DrawArraysOf(n, "result") >>
           /\ \A k \in DOMAIN m.source.primitiveSets :
                 \A j \in DOMAIN m.source.primitiveSets[k].indices :
                    m.source.vertexArray.data[m.source.primitiveSets[k].indices[j]]
                       \in Elements(m.result.vertexArray.data)

\* The same for sources whose primitive sets are DrawElements or DrawArrays
\* and whose colors, if any, are a Vec4ubArray.
SubdivisionCountOnSupportedSources ==
    (/\ \A k \in DOMAIN m.source.primitiveSets :
           m.source.primitiveSets[k].class \in {"DrawElements", "DrawArrays"}
     /\ m.source.colorArray.type \in {"null", "Vec4ubArray"})
    => C34_FourPowerTriangles

\* Primitive set ps is one subdivide has a loop for.
CanBeSubdivided(ps) ==
    /\ ps.mode = "GL_TRIANGLES"
    /\ ps.class \in {"DrawElements", "DrawArrays"}

\* Array b is a new object with the type and elements of a, or both are
\* null.
IsCopyOfArray(b, a) ==
    /\ b.type = a.type
    /\ b.data = a.data
    /\ a.type # "null" => b.owner # a.owner

\* Geometry h is a new geometry whose arrays and primitive sets are new
\* objects with the contents of those of g.
IsDeepCopyOf(h, g) ==
    /\ ~h.null
    /\ h.owner # g.owner
    /\ IsCopyOfArray(h.vertexArray, g.vertexArray)
    /\ IsCopyOfArray(h.normalArray, g.normalArray)
    /\ IsCopyOfArray(h.texCoordArray, g.texCoordArray)
    /\ IsCopyOfArray(h.colorArray, g.colorArray)
    /\ Len(h.primitiveSets) = Len(g.primitiveSets)
    /\ \A k \in DOMAIN g.primitiveSets :
          /\ h.primitiveSets[k].mode = g.primitiveSets[k].mode
          /\ h.primitiveSets[k].class = g.primitiveSets[k].class
          /\ h.primitiveSets[k].indices = g.primitiveSets[k].indices
          /\ h.primitiveSets[k].owner # g.primitiveSets[k].owner

\* C35 (subdivide failure contract): after subdivide(source, levels) the
\* result is null for a null source and for levels below 0 or above 4; for
\* a source that is not null, levels = 0 gives a deep copy; for levels in
\* 1 .. 4 the result is null when the vertex, normal or UV array is missing
\* and when some primitive set cannot be subdivided, and a geometry
\* otherwise; the source is as it was before the call; and createChunk
\* keeps the original geometry when the result is null.
C35_SubdivideFailureContract ==
    /\ [](frames = 1 =>
            /\ m.source.null => m.result.null
            /\ (m.levels < 0 \/ m.levels > 4) => m.result.null
            /\ (~m.source.null /\ m.levels = 0) => IsDeepCopyOf(m.result, m.source)
            /\ (~m.source.null /\ m.levels \in 1 .. 4) =>
                  (m.result.null <=>
                      \/ ~HasRequiredArrays(m.source)
                      \/ \E k \in DOMAIN m.source.primitiveSets :
                            ~CanBeSubdivided(m.source.primitiveSets[k]))
            /\ (m.levels > 0 /\ m.result.null) => m.chunk = m.source)
    /\ [][m'.source = m.source]_vars

\* ------------------------------------------------------ the chunk manager
\* CACHE_CLEAR_THRESHOLD of setPlayerPosition, in world units.
CacheClearThreshold == 128

\* Positions handed to setPlayerPosition, and the keys of the chunks asked
\* for.
PlayerPositions ==
    { <<0, 0, 0>>, <<0, 0, 500>>, <<128, 0, 0>>, <<129, 0, 0>>,
      <<100, 100, 0>>, <<200, 100, 50>> }
ChunkKeys == { "near", "far" }

\* The members of ChunkManager the cache clearing reads and writes; the
\* number of clearCache() calls made so far is kept beside them.
InitChunkManager ==
    [mPlayerPosition |-> <<0, 0, 0>>,
     mLastCacheClearPosition |-> <<0, 0, 0>>,
     mCache |-> {},
     mBufferCache |-> {},
     cacheClears |-> 0]

\* ChunkManager::clearCache()
ClearCache(s) ==
    [s EXCEPT !.mCache = {},
              !.mBufferCache = {},
              !.mLastCacheClearPosition = s.mPlayerPosition,
              !.cacheClears = @ + 1]

\* setPlayerPosition without its own assignment of the last clear position:
\* clearCache() alone sets it, to the position of the call before.
SetPlayerPositionLeavingClearPosition(s, pos) ==
    LET cleared == IF FartherThan2(pos, s.mLastCacheClearPosition, CacheClearThreshold)
                   THEN ClearCache(s)
                   ELSE s
    IN  [cleared EXCEPT !.mPlayerPosition = pos]

\* ChunkManager::setPlayerPosition(pos)
SetPlayerPosition(s, pos) ==
    LET cleared == IF FartherThan2(pos, s.mLastCacheClearPosition, CacheClearThreshold)
                   THEN [ClearCache(s) EXCEPT !.mLastCacheClearPosition = pos]
                   ELSE s
    IN  [cleared EXCEPT !.mPlayerPosition = pos]

\* ChunkManager::getChunk(...): a chunk that is not in the cache is created,
\* with its buffers from the buffer cache, and entered.
GetChunk(s, key) ==
    IF key \in s.mCache THEN s
    ELSE [s EXCEPT !.mCache = @ \cup {key},
                   !.mBufferCache = @ \cup {"buffers"}]

InitChunkCache ==
    /\ m = InitChunkManager
    /\ tex = [i \in 0 .. 1 |-> ZeroGrid]
    /\ updater = InitUpdater
    /\ phase = "update"
    /\ frames = 0
    /\ call = [op |-> "none", playerPos |-> <<0, 0, 0>>]

CallSetPlayerPosition ==
    /\ frames < MaxSchedFrames
    /\ \E pos \in PlayerPositions :
          /\ m' = SetPlayerPosition(m, pos)
          /\ call' = [op |-> "setPlayerPosition", playerPos |-> pos]
    /\ frames' = frames + 1
    /\ UNCHANGED <<tex, updater, phase>>

CallGetChunk ==
    /\ frames < MaxSchedFrames
    /\ \E key \in ChunkKeys :
          /\ m' = GetChunk(m, key)
          /\ call' = [op |-> "getChunk", playerPos |-> call.playerPos]
    /\ frames' = frames + 1
    /\ UNCHANGED <<tex, updater, phase>>

CallClearCache ==
    /\ frames < MaxSchedFrames
    /\ m' = ClearCache(m)
    /\ call' = [op |-> "clearCache", playerPos |-> call.playerPos]
    /\ frames' = frames + 1
    /\ UNCHANGED <<tex, updater, phase>>

ChunkCacheNext == CallSetPlayerPosition \/ CallGetChunk \/ CallClearCache

SpecChunkCache == InitChunkCache /\ [][ChunkCacheNext]_vars

\* The step is a call of setPlayerPosition.
IsSetPlayerPosition == frames' = frames + 1 /\ call'.op = "setPlayerPosition"

HorizontalDistSq(a, b) ==
    (a[1] - b[1]) * (a[1] - b[1]) + (a[2] - b[2]) * (a[2] - b[2])

\* C36 (cache clear threshold): a call setPlayerPosition(pos) clears the
\* chunk cache exactly when the horizontal distance of pos from the last
\* clear position is more than 128; after it the stored player position is
\* pos; after a clear the last clear position is pos; and a call that
\* follows a clearing call with a position within 128 of that call's does
\* not clear.
C36_CacheClearThreshold ==
    [][IsSetPlayerPosition =>
         LET pos == call'.playerPos
             far == HorizontalDistSq(pos, m.mLastCacheClearPosition) > 128 * 128
         IN  /\ far => /\ m'.cacheClears = m.cacheClears + 1
                       /\ m'.mCache = {}
                       /\ m'.mBufferCache = {}
                       /\ m'.mLastCacheClearPosition = pos
             /\ ~far => /\ m'.cacheClears = m.cacheClears
                        /\ m'.mCache = m.mCache
                        /\ m'.mBufferCache = m.mBufferCache
                        /\ m'.mLastCacheClearPosition = m.mLastCacheClearPosition
             /\ m'.mPlayerPosition = pos
             /\ (/\ call.op = "setPlayerPosition"
                 /\ m.mLastCacheClearPosition = call.playerPos
                 /\ HorizontalDistSq(pos, call.playerPos) <= 128 * 128)
                => m'.cacheClears = m.cacheClears]_vars

\* The first call, to (129, 0, 0), has cleared the cache; the second, to
\* (200, 100, 50), within 128 of it, has not.
C36_Witness ==
    /\ frames = 2
    /\ call.op = "setPlayerPosition"
    /\ m.cacheClears = 1
    /\ m.mLastCacheClearPosition = <<129, 0, 0>>
    /\ m.mPlayerPosition = <<200, 100, 50>>

=============================================================================
